---------------------------- MODULE Spec2Model ----------------------------
(***************************************************************************)
(* A model of src/js/main.js: the homepage initializer App.init, the ten   *)
(* setup routines it calls, and the event handlers and timer callbacks     *)
(* they install.                                                           *)
(*                                                                         *)
(* JavaScript values are tagged records ([t |-> "num", v |-> 3], ...).     *)
(* A string held in localStorage under the cart or wishlist key is a       *)
(* sequence of JSON tokens; JSONparse is a recursive-descent parser over   *)
(* it.  Text written to the page is a sequence of characters.  The clock   *)
(* counts milliseconds from the moment the page starts loading.            *)
(***************************************************************************)
EXTENDS Integers, Sequences, FiniteSets, TLC

VARIABLES
    present,            \* the optional elements the document holds
    localStorage,       \* key -> stored string, for the keys that are set
    prefersDark,        \* matchMedia("(prefers-color-scheme: dark)").matches
    pc,                 \* "loading" | "ready" | "failed" (init threw)
    listeners,          \* the handlers and timers init has installed
    cartBadge,          \* #cart-count textContent
    wishlistBadge,      \* #wishlist-count textContent
    dataTheme,          \* <html data-theme>, "null" when the attribute is unset
    toggleText,         \* #theme-toggle textContent
    headingText,        \* textContent of the [data-split='words'] heading
    spans,              \* the text of each span initHeadlineSplit appended
    spansShown,         \* the spans whose animation-frame callback has run
    themeClicks,        \* clicks on #theme-toggle so far (capped)
    themeAtInit,        \* data-theme and stored preference as initTheme left them
    tabKeys,            \* data-tab of each .tab, in document order
    panelKeys,          \* data-panel of each .tab-panel, in document order
    tabActive,          \* the .tab elements carrying is-active
    panelActive,        \* the .tab-panel elements carrying is-active
    lastTab,            \* the tab clicked last, 0 before any click
    now,                \* the clock at its latest reading
    countdownTarget,    \* state.countdownTarget, -1 for null
    countdownDue,       \* when the 1000 ms interval fires next, -1 when not set
    countdownText,      \* textContent of #days, #hours, #minutes, #seconds
    countdownTicks,     \* calls of tick so far (capped)
    slideCount,         \* children of #testimonial-track
    testimonialIndex,   \* state.testimonialIndex
    testimonialTimer,   \* state.testimonialTimer: 0 for null, else the timer id
    autoplayDue,        \* when the 5000 ms interval fires next, -1 when not set
    autoplayTicks,      \* autoplay callbacks so far (capped)
    dotCount,           \* buttons inside #testimonial-dots
    dotsActive,         \* the dots carrying is-active
    trackOffset,        \* the percentage in the track's translateX(-N%)
    lastMove,           \* the carousel handler that ran last and what it saw
    revealCount,        \* number of .reveal elements
    revealVisible,      \* the .reveal elements carrying is-visible
    lastEntries,        \* the entries of the latest observer callback
    scrollY,            \* window.scrollY
    heroOffset,         \* the pixels in .hero-bg's translate3d(0, Npx, 0)
    backToTopVisible,   \* #back-to-top carries is-visible
    arrivalLoading,     \* #arrival-track carries is-loading
    arrivalDue,         \* when the 1200 ms timeout fires, -1 when not set
    error               \* the uncaught exception, "none" when there is none

vars == <<present, localStorage, prefersDark, pc, listeners, cartBadge,
          wishlistBadge, dataTheme, toggleText, headingText, spans, spansShown,
          themeClicks, themeAtInit,
          tabKeys, panelKeys, tabActive, panelActive, lastTab, now,
          countdownTarget, countdownDue, countdownText, countdownTicks,
          slideCount, testimonialIndex, testimonialTimer, autoplayDue,
          autoplayTicks, dotCount, dotsActive, trackOffset, lastMove,
          revealCount, revealVisible, lastEntries, scrollY, heroOffset,
          backToTopVisible, arrivalLoading, arrivalDue, error>>

-----------------------------------------------------------------------------
(* JavaScript values *)

Num(n) == [t |-> "num", v |-> n]
Str(cs) == [t |-> "str", chars |-> cs]
Arr(xs) == [t |-> "arr", items |-> xs]
Obj(ps) == [t |-> "obj", props |-> ps]
JsNull == [t |-> "null"]
Undefined == [t |-> "undefined"]
NaN == [t |-> "NaN"]

\* ToBoolean
Truthy(x) ==
    CASE x.t = "num" -> x.v # 0
      [] x.t = "str" -> x.chars # <<>>
      [] x.t \in {"null", "undefined", "NaN"} -> FALSE
      [] OTHER -> TRUE

Digit(d) == <<"0", "1", "2", "3", "4", "5", "6", "7", "8", "9">>[d + 1]

RECURSIVE Digits(_)
Digits(n) == IF n < 10 THEN <<Digit(n)>> ELSE Digits(n \div 10) \o <<Digit(n % 10)>>

\* String(n) for an integer n
IntToString(n) == IF n < 0 THEN <<"-">> \o Digits(-n) ELSE Digits(n)

RECURSIVE JsToString(_)
RECURSIVE JoinItems(_)
JoinItems(xs) ==
    IF xs = <<>> THEN <<>>
    ELSE LET h == IF Head(xs).t \in {"null", "undefined"} THEN <<>>
                  ELSE JsToString(Head(xs))
         IN IF Len(xs) = 1 THEN h ELSE h \o <<",">> \o JoinItems(Tail(xs))

\* ToString
JsToString(x) ==
    CASE x.t = "num" -> IntToString(x.v)
      [] x.t = "str" -> x.chars
      [] x.t = "null" -> <<"n", "u", "l", "l">>
      [] x.t = "undefined" -> <<"u", "n", "d", "e", "f", "i", "n", "e", "d">>
      [] x.t = "NaN" -> <<"N", "a", "N">>
      [] x.t = "arr" -> JoinItems(x.items)
      [] OTHER -> <<"[", "o", "b", "j", "e", "c", "t", " ", "O", "b", "j", "e", "c", "t", "]">>

\* a + b
JsAdd(a, b) ==
    IF a.t = "num" /\ b.t = "num" THEN Num(a.v + b.v)
    ELSE Str(JsToString(a) \o JsToString(b))

\* What assigning x to a node's textContent leaves in the node: null and
\* undefined empty it, anything else is converted to a string.
TextContentOf(x) == IF x.t \in {"null", "undefined"} THEN <<>> ELSE JsToString(x)

-----------------------------------------------------------------------------
(* JSON.parse over token sequences *)

StringTokens == {"qty", "id"}
NumberTokens == {Digit(n) : n \in 0..9}

TokenChars(tok) == IF tok = "qty" THEN <<"q", "t", "y">> ELSE <<"i", "d">>
TokenNumber(tok) == CHOOSE n \in 0..9 : Digit(n) = tok

Fail == [ok |-> FALSE]
Parsed(v, rest) == [ok |-> TRUE, val |-> v, rest |-> rest]

RECURSIVE ParseValue(_)
RECURSIVE ParseElements(_, _)
RECURSIVE ParseMembers(_, _)

ParseElements(ts, acc) ==
    LET r == ParseValue(ts) IN
    IF ~r.ok \/ r.rest = <<>> THEN Fail
    ELSE IF Head(r.rest) = "]" THEN Parsed(Arr(Append(acc, r.val)), Tail(r.rest))
    ELSE IF Head(r.rest) = "," THEN ParseElements(Tail(r.rest), Append(acc, r.val))
    ELSE Fail

ParseMembers(ts, props) ==
    IF Len(ts) < 2 \/ Head(ts) \notin StringTokens \/ ts[2] # ":" THEN Fail
    ELSE LET key == Head(ts)
             r == ParseValue(SubSeq(ts, 3, Len(ts)))
         IN IF ~r.ok \/ r.rest = <<>> THEN Fail
            ELSE LET ps == [k \in DOMAIN props \cup {key} |->
                               IF k = key THEN r.val ELSE props[k]]
                 IN IF Head(r.rest) = "}" THEN Parsed(Obj(ps), Tail(r.rest))
                    ELSE IF Head(r.rest) = "," THEN ParseMembers(Tail(r.rest), ps)
                    ELSE Fail

ParseValue(ts) ==
    IF ts = <<>> THEN Fail
    ELSE LET h == Head(ts)
             rest == Tail(ts)
         IN CASE h = "null" -> Parsed(JsNull, rest)
              [] h \in NumberTokens -> Parsed(Num(TokenNumber(h)), rest)
              [] h \in StringTokens -> Parsed(Str(TokenChars(h)), rest)
              [] h = "[" -> IF rest # <<>> /\ Head(rest) = "]"
                            THEN Parsed(Arr(<<>>), Tail(rest))
                            ELSE ParseElements(rest, <<>>)
              [] h = "{" -> IF rest # <<>> /\ Head(rest) = "}"
                            THEN Parsed(Obj(<<>>), Tail(rest))
                            ELSE ParseMembers(rest, <<>>)
              [] OTHER -> Fail

\* JSON.parse(text): the value, or a SyntaxError
JSONparse(text) ==
    LET r == ParseValue(text) IN
    IF r.ok /\ r.rest = <<>> THEN [ok |-> TRUE, val |-> r.val] ELSE Fail

-----------------------------------------------------------------------------
(* Bounds of the model *)

MaxItems == 2       \* items in a stored cart or wishlist array
MaxQty == 2         \* largest qty a stored item carries
MaxClicks == 3      \* clicks on the theme toggle
MaxTabs == 2        \* .tab elements, and .tab-panel elements
MaxSlides == 3      \* children of #testimonial-track
MaxTicks == 3       \* firings of each interval timer
MaxDrift == 2       \* milliseconds the clock advances between two readings
MaxReveal == 2      \* .reveal elements
MaxAbsent == 2      \* optional elements missing from the document

-----------------------------------------------------------------------------
(* localStorage, loadStorage and syncBadges *)

CartKey == "veloura-cart"
WishlistKey == "veloura-wishlist"
ThemeKey == "veloura-theme"

\* localStorage.getItem(key) is a non-empty string
HasText(key) == key \in DOMAIN localStorage /\ localStorage[key] # <<>>

loadStorage(key, fallback) ==
    IF HasText(key)
    THEN LET r == JSONparse(localStorage[key]) IN IF r.ok THEN r.val ELSE fallback
    ELSE fallback

\* x.name for the property names the code reads (qty, length); a TypeError on
\* null and undefined
GetProp(x, name) ==
    CASE x.t \in {"null", "undefined"} -> [ok |-> FALSE]
      [] x.t = "obj" -> [ok |-> TRUE,
                         val |-> IF name \in DOMAIN x.props THEN x.props[name]
                                 ELSE Undefined]
      [] x.t = "arr" /\ name = "length" -> [ok |-> TRUE, val |-> Num(Len(x.items))]
      [] x.t = "str" /\ name = "length" -> [ok |-> TRUE, val |-> Num(Len(x.chars))]
      [] OTHER -> [ok |-> TRUE, val |-> Undefined]

\* item.qty || 1
QtyOrOne(qty) == IF Truthy(qty) THEN qty ELSE Num(1)

\* The reduce callback of syncBadges: sum + (item.qty || 1)
AddItem(sum, item) ==
    LET q == GetProp(item, "qty") IN
    IF q.ok THEN [ok |-> TRUE, val |-> JsAdd(sum, QtyOrOne(q.val))] ELSE [ok |-> FALSE]

RECURSIVE Reduce(_, _)
Reduce(items, sum) ==
    IF items = <<>> THEN [ok |-> TRUE, val |-> sum]
    ELSE LET r == AddItem(sum, Head(items)) IN
         IF r.ok THEN Reduce(Tail(items), r.val) ELSE r

\* cart.reduce(..., 0): a TypeError unless cart is an array
CartCount(cart) == IF cart.t = "arr" THEN Reduce(cart.items, Num(0)) ELSE [ok |-> FALSE]

\* syncBadges: whether it throws, and the text it leaves in each badge
syncBadges ==
    LET cart == loadStorage(CartKey, Arr(<<>>))
        wishlist == loadStorage(WishlistKey, Arr(<<>>))
        cartCount == CartCount(cart)
        wishlistCount == IF cartCount.ok THEN GetProp(wishlist, "length") ELSE [ok |-> FALSE]
    IN IF cartCount.ok /\ wishlistCount.ok
       THEN [threw |-> FALSE,
             cart |-> IF "cart-count" \in present THEN TextContentOf(cartCount.val)
                      ELSE cartBadge,
             wishlist |-> IF "wishlist-count" \in present
                          THEN TextContentOf(wishlistCount.val) ELSE wishlistBadge]
       ELSE [threw |-> TRUE, cart |-> cartBadge, wishlist |-> wishlistBadge]

-----------------------------------------------------------------------------
(* initTheme and the toggle's click handler *)

\* localStorage.getItem("veloura-theme"), "null" when the key is not set
StoredTheme == IF ThemeKey \in DOMAIN localStorage THEN localStorage[ThemeKey] ELSE "null"

SystemTheme == IF prefersDark THEN "dark" ELSE "light"

\* stored || system
InitialTheme == IF StoredTheme \notin {"null", ""} THEN StoredTheme ELSE SystemTheme

ToggleLabel(theme) == IF theme = "dark" THEN "Light" ELSE "Dark"

\* A toggle that can only switch to dark
NextThemeStuck(current) == "dark"

NextTheme(current) == IF current = "dark" THEN "light" ELSE "dark"

SetItem(key, value) ==
    [k \in DOMAIN localStorage \cup {key} |-> IF k = key THEN value ELSE localStorage[k]]

-----------------------------------------------------------------------------
(* The document *)

ElementIds ==
    {"cart-count", "wishlist-count", "theme-toggle", "split-title", "hero-bg", "days", "hours",
     "minutes", "seconds", "testimonial-track", "testimonial-dots",
     "prev-testimonial", "next-testimonial", "back-to-top", "arrival-track"}

\* The text an element holds in the markup, before any script writes to it
MarkupText == <<"~">>

\* dataset.tab / dataset.panel of an element without the attribute
NoKey == "undefined"

-----------------------------------------------------------------------------
(* initHeadlineSplit *)

RECURSIVE TrimLeft(_)
TrimLeft(cs) == IF cs # <<>> /\ Head(cs) = " " THEN TrimLeft(Tail(cs)) ELSE cs

RECURSIVE TrimRight(_)
TrimRight(cs) ==
    IF cs # <<>> /\ cs[Len(cs)] = " " THEN TrimRight(SubSeq(cs, 1, Len(cs) - 1)) ELSE cs

\* text.trim()
Trim(cs) == TrimRight(TrimLeft(cs))

\* text.split(" "): the pieces between single spaces, empty pieces included
RECURSIVE SplitFrom(_, _)
SplitFrom(cs, word) ==
    IF cs = <<>> THEN <<word>>
    ELSE IF Head(cs) = " " THEN <<word>> \o SplitFrom(Tail(cs), <<>>)
    ELSE SplitFrom(Tail(cs), Append(word, Head(cs)))

Split(cs) == SplitFrom(cs, <<>>)

\* The text of the spans: `${word} ` for each word of the trimmed heading
SpanTexts(text) ==
    LET words == Split(Trim(text)) IN [i \in 1..Len(words) |-> Append(words[i], " ")]

RECURSIVE Concat(_)
Concat(texts) == IF texts = <<>> THEN <<>> ELSE Head(texts) \o Concat(Tail(texts))

\* Headings of the markup: empty, two words, and one with doubled and
\* surrounding spaces
DefaultHeading == <<"N", "e", "w", " ", "i", "n">>
HeadingTexts == {<<>>, DefaultHeading, <<" ", "a", " ", " ", "b", " ">>}

-----------------------------------------------------------------------------
(* initTabs: the click handler of a tab *)

\* tabs.forEach(btn => btn.classList.toggle("is-active", btn === tab))
TabsAfterClick(tab) == {btn \in 1..Len(tabKeys) : btn = tab}

\* classList.add for the matching panels, the others left as they were
PanelsAfterClickAdd(tab) ==
    panelActive \cup {panel \in 1..Len(panelKeys) : panelKeys[panel] = tabKeys[tab]}

\* panels.forEach(panel => panel.classList.toggle("is-active",
\*                                  panel.dataset.panel === target))
PanelsAfterClick(tab) ==
    LET target == tabKeys[tab] IN {panel \in 1..Len(panelKeys) : panelKeys[panel] = target}

-----------------------------------------------------------------------------
(* initCountdown *)

ThreeDays == 3 * 24 * 60 * 60 * 1000
CountdownPeriod == 1000
CountdownIds == <<"days", "hours", "minutes", "seconds">>
CountdownIdSet == {CountdownIds[i] : i \in 1..4}

\* String(value).padStart(2, "0")
pad(value) ==
    LET s == IntToString(value) IN IF Len(s) < 2 THEN <<"0">> \o s ELSE s

\* Math.floor(remaining / unit)
FloorDiv(remaining, unit) == remaining \div unit

\* Math.floor((remaining / unit) % m): the remainder takes the dividend's sign
FloorOfRem(remaining, unit, m) ==
    IF remaining >= 0 THEN (remaining \div unit) % m
    ELSE -((((-remaining) % (unit * m)) + unit - 1) \div unit)

\* tick, with the three readings of the clock it makes: t1 (line 152), t1 + d2
\* (line 154, read only when the target has passed) and d3 later (line 156).
tick(target, t1, d2, d3) ==
    LET diff == target - t1
        t2 == IF diff <= 0 THEN t1 + d2 ELSE t1
        newTarget == IF diff <= 0 THEN t2 + ThreeDays ELSE target
        t3 == t2 + d3
        remaining == newTarget - t3
    IN [target |-> newTarget,
        clock |-> t3,
        remaining |-> remaining,
        rebased |-> diff <= 0,
        parts |-> <<FloorDiv(remaining, 1000 * 60 * 60 * 24),
                    FloorOfRem(remaining, 1000 * 60 * 60, 24),
                    FloorOfRem(remaining, 1000 * 60, 60),
                    FloorOfRem(remaining, 1000, 60)>>]

\* Lines 161-164: document.querySelector("#id").textContent = pad(part), in
\* order; the first missing element raises a TypeError and ends the callback.
Missing == {i \in 1..4 : CountdownIds[i] \notin present}
FirstMissing == IF Missing = {} THEN 5 ELSE CHOOSE i \in Missing : \A j \in Missing : i <= j

TickWrites(parts) ==
    [threw |-> FirstMissing <= 4,
     text |-> [id \in CountdownIdSet |->
                 LET i == CHOOSE k \in 1..4 : CountdownIds[k] = id IN
                 IF i < FirstMissing THEN pad(parts[i]) ELSE countdownText[id]]]

-----------------------------------------------------------------------------
(* initTestimonials *)

AutoplayPeriod == 5000

\* x + k and x * k for a number x that may be NaN
AddInt(x, k) == IF x.t = "num" THEN Num(x.v + k) ELSE NaN
MulInt(x, k) == IF x.t = "num" THEN Num(x.v * k) ELSE NaN

\* x % n: NaN for n = 0, else the remainder with the dividend's sign
JsRem(x, n) ==
    IF x.t # "num" \/ n = 0 THEN NaN
    ELSE IF x.v >= 0 THEN Num(x.v % n) ELSE Num(-((-x.v) % n))

\* index % slides.length, without adding the length first
goToSlideNoWrap(index) == JsRem(index, slideCount)

\* The index clamped to the ends of the track instead of wrapped
goToSlideClamped(index) ==
    IF index.t # "num" \/ slideCount = 0 THEN NaN
    ELSE IF index.v < 0 THEN Num(0)
    ELSE IF index.v >= slideCount THEN Num(slideCount - 1)
    ELSE index

\* The index goToSlide(index) stores: (index + slides.length) % slides.length
goToSlide(index) == JsRem(AddInt(index, slideCount), slideCount)

\* update(), for the index just stored
DotsFor(index) == {idx \in 0..(dotCount - 1) : Num(idx) = index}
OffsetFor(index) == MulInt(index, 100)

-----------------------------------------------------------------------------
(* Scrolling and timers *)

BackToTopThreshold == 400
ArrivalDelay == 1200

\* How late, in milliseconds, a timer callback may run after it is due: on
\* time, a little late, or after the page slept for nearly three days.
Lateness == {0, 1} \cup {ThreeDays - CountdownPeriod - k : k \in 0..2}

ScrollPositions == {0, BackToTopThreshold, BackToTopThreshold + 5}

Max(a, b) == IF a >= b THEN a ELSE b

-----------------------------------------------------------------------------
(* The page as it is when DOMContentLoaded fires *)

InitPage(elements, storage, dark, heading, tabs, panels, tabsOn, panelsOn, slides, reveals) ==
    /\ headingText = heading
    /\ spans = <<>>
    /\ spansShown = {}
    /\ present = elements
    /\ localStorage = storage
    /\ prefersDark = dark
    /\ pc = "loading"
    /\ listeners = {}
    /\ cartBadge = MarkupText
    /\ wishlistBadge = MarkupText
    /\ dataTheme = "null"
    /\ toggleText = "Theme"
    /\ themeClicks = 0
    /\ themeAtInit = <<"null", "null">>
    /\ tabKeys = tabs
    /\ panelKeys = panels
    /\ tabActive = tabsOn
    /\ panelActive = panelsOn
    /\ lastTab = 0
    /\ now = 0
    /\ countdownTarget = -1
    /\ countdownDue = -1
    /\ countdownText = [id \in CountdownIdSet |-> MarkupText]
    /\ countdownTicks = 0
    /\ slideCount = slides
    /\ testimonialIndex = Num(0)
    /\ testimonialTimer = 0
    /\ autoplayDue = -1
    /\ autoplayTicks = 0
    /\ dotCount = 0
    /\ dotsActive = {}
    /\ trackOffset = Num(0)
    /\ lastMove = [kind |-> "none", from |-> Num(0), arg |-> 0]
    /\ revealCount = reveals
    /\ revealVisible = {}
    /\ lastEntries = <<>>
    /\ scrollY = 0
    /\ heroOffset = 0
    /\ backToTopVisible = FALSE
    /\ arrivalLoading = ("arrival-track" \in elements)
    /\ arrivalDue = -1
    /\ error = "none"

-----------------------------------------------------------------------------
(* init: the ten initializers in order; an exception ends it where it is   *)
(* raised.  d1 and d3 are the milliseconds the clock advances before the    *)
(* first tick reads it (line 152) and before it reads it again (line 156).  *)

init ==
    /\ pc = "loading"
    /\ \E badges \in {syncBadges}, d1 \in 0..MaxDrift, d3 \in 0..MaxDrift :
        LET ok1 == ~badges.threw
            \* initTheme
            toggle == "theme-toggle" \in present
            theme == InitialTheme
            \* initHeadlineSplit
            title == ok1 /\ "split-title" \in present
            \* initCountdown
            counting == ok1 /\ "days" \in present
            target0 == now + ThreeDays
            first == tick(target0, now + d1, 0, d3)
            writes == TickWrites(first.parts)
            ok2 == ok1 /\ ~(counting /\ writes.threw)
            clock == IF counting THEN first.clock ELSE now
            \* initTestimonials
            carousel == ok2 /\ "testimonial-track" \in present
                            /\ "testimonial-dots" \in present
        IN  /\ cartBadge' = badges.cart
            /\ wishlistBadge' = badges.wishlist
            /\ dataTheme' = IF ok1 THEN theme ELSE dataTheme
            /\ toggleText' = IF ok1 /\ toggle THEN ToggleLabel(theme) ELSE toggleText
            /\ themeAtInit' = IF ok1 THEN <<theme, StoredTheme>> ELSE themeAtInit
            /\ spans' = IF title THEN SpanTexts(headingText) ELSE spans
            /\ headingText' = IF title THEN Concat(SpanTexts(headingText)) ELSE headingText
            /\ now' = clock
            /\ countdownTarget' = IF counting THEN first.target ELSE countdownTarget
            /\ countdownText' = IF counting THEN writes.text ELSE countdownText
            /\ countdownTicks' = IF counting THEN 1 ELSE 0
            /\ countdownDue' = IF counting /\ ok2 THEN clock + CountdownPeriod ELSE -1
            /\ dotCount' = IF carousel THEN slideCount ELSE dotCount
            /\ dotsActive' = IF carousel
                             THEN {idx \in 0..(slideCount - 1) : Num(idx) = testimonialIndex}
                             ELSE dotsActive
            /\ trackOffset' = IF carousel THEN OffsetFor(testimonialIndex) ELSE trackOffset
            /\ testimonialTimer' = IF carousel THEN (IF counting THEN 2 ELSE 1) ELSE 0
            /\ autoplayDue' = IF carousel THEN clock + AutoplayPeriod ELSE -1
            /\ arrivalDue' = IF ok2 /\ "arrival-track" \in present
                             THEN clock + ArrivalDelay ELSE -1
            /\ listeners' =
                  (IF ok1 /\ toggle THEN {"theme:click"} ELSE {})
                  \cup (IF title THEN {"frame:headline"} ELSE {})
                  \cup (IF ok1 /\ "hero-bg" \in present THEN {"scroll:parallax"} ELSE {})
                  \cup (IF ok1 /\ revealCount > 0 THEN {"reveal:observer"} ELSE {})
                  \cup (IF ok1 /\ Len(tabKeys) > 0 THEN {"tab:click"} ELSE {})
                  \cup (IF counting /\ ok2 THEN {"countdown:interval"} ELSE {})
                  \cup (IF carousel THEN {"dot:click", "autoplay:interval"} ELSE {})
                  \cup (IF carousel /\ "prev-testimonial" \in present
                        THEN {"prev:click"} ELSE {})
                  \cup (IF carousel /\ "next-testimonial" \in present
                        THEN {"next:click"} ELSE {})
                  \cup (IF ok2 /\ "back-to-top" \in present
                        THEN {"scroll:backtotop", "backtotop:click"} ELSE {})
                  \cup (IF ok2 /\ "arrival-track" \in present
                        THEN {"arrival:timeout"} ELSE {})
            /\ pc' = IF ok2 THEN "ready" ELSE "failed"
            /\ error' = IF ok2 THEN "none" ELSE "TypeError"
    /\ UNCHANGED <<present, spansShown, localStorage, prefersDark, themeClicks, tabKeys,
                   panelKeys, tabActive, panelActive, lastTab, slideCount,
                   testimonialIndex, autoplayTicks, lastMove, revealCount,
                   revealVisible, lastEntries, scrollY, heroOffset,
                   backToTopVisible, arrivalLoading>>

-----------------------------------------------------------------------------
(* Event handlers and timer callbacks *)

\* The click listener of #theme-toggle (lines 60-66)
ThemeToggleClick ==
    /\ "theme:click" \in listeners
    /\ themeClicks < MaxClicks
    /\ LET next == NextTheme(dataTheme) IN
        /\ dataTheme' = next
        /\ localStorage' = SetItem(ThemeKey, next)
        /\ toggleText' = ToggleLabel(next)
    /\ themeClicks' = themeClicks + 1
    /\ UNCHANGED <<present, headingText, spans, spansShown, prefersDark, pc, listeners, cartBadge, wishlistBadge,
                   themeAtInit, tabKeys, panelKeys, tabActive, panelActive, lastTab,
                   now, countdownTarget, countdownDue, countdownText,
                   countdownTicks, slideCount, testimonialIndex, testimonialTimer,
                   autoplayDue, autoplayTicks, dotCount, dotsActive, trackOffset,
                   lastMove, revealCount, revealVisible, lastEntries, scrollY,
                   heroOffset, backToTopVisible, arrivalLoading, arrivalDue, error>>

\* The click listener of a tab (lines 132-138)
TabClick(tab) ==
    /\ "tab:click" \in listeners
    /\ tab \in 1..Len(tabKeys)
    /\ tabActive' = TabsAfterClick(tab)
    /\ panelActive' = PanelsAfterClick(tab)
    /\ lastTab' = tab
    /\ UNCHANGED <<present, headingText, spans, spansShown, localStorage, prefersDark, pc, listeners, cartBadge,
                   wishlistBadge, dataTheme, toggleText, themeClicks, themeAtInit,
                   tabKeys, panelKeys, now, countdownTarget, countdownDue,
                   countdownText, countdownTicks, slideCount, testimonialIndex,
                   testimonialTimer, autoplayDue, autoplayTicks, dotCount,
                   dotsActive, trackOffset, lastMove, revealCount, revealVisible,
                   lastEntries, scrollY, heroOffset, backToTopVisible,
                   arrivalLoading, arrivalDue, error>>

\* The setInterval(tick, 1000) callback, run `late` ms after it is due
CountdownTick(late, d2, d3) ==
    /\ "countdown:interval" \in listeners
    /\ countdownTicks < MaxTicks
    /\ LET t1 == Max(now, countdownDue) + late
           r == tick(countdownTarget, t1, d2, d3)
           writes == TickWrites(r.parts)
       IN /\ countdownTarget' = r.target
          /\ countdownText' = writes.text
          /\ now' = r.clock
          /\ countdownDue' = t1 + CountdownPeriod
          /\ error' = IF writes.threw THEN "TypeError" ELSE error
    /\ countdownTicks' = countdownTicks + 1
    /\ UNCHANGED <<present, headingText, spans, spansShown, localStorage, prefersDark, pc, listeners, cartBadge,
                   wishlistBadge, dataTheme, toggleText, themeClicks, themeAtInit,
                   tabKeys, panelKeys, tabActive, panelActive, lastTab, slideCount,
                   testimonialIndex, testimonialTimer, autoplayDue, autoplayTicks,
                   dotCount, dotsActive, trackOffset, lastMove, revealCount,
                   revealVisible, lastEntries, scrollY, heroOffset,
                   backToTopVisible, arrivalLoading, arrivalDue>>

\* goToSlide(index) followed by update(), called by the handler `kind`
Move(kind, index, arg) ==
    LET stored == goToSlide(index) IN
    /\ testimonialIndex' = stored
    /\ dotsActive' = DotsFor(stored)
    /\ trackOffset' = OffsetFor(stored)
    /\ lastMove' = [kind |-> kind, from |-> testimonialIndex, arg |-> arg]

CarouselFrame ==
    UNCHANGED <<present, headingText, spans, spansShown, localStorage, prefersDark, pc, listeners, cartBadge,
                wishlistBadge, dataTheme, toggleText, themeClicks, themeAtInit,
                tabKeys, panelKeys, tabActive, panelActive, lastTab,
                countdownTarget, countdownDue, countdownText, countdownTicks,
                slideCount, dotCount, revealCount,
                revealVisible, lastEntries, scrollY, heroOffset,
                backToTopVisible, arrivalLoading, arrivalDue, error>>

\* The click listener of dot `index` (line 185)
DotClick(index) ==
    /\ "dot:click" \in listeners
    /\ index \in 0..(dotCount - 1)
    /\ Move("dot", Num(index), index)
    /\ UNCHANGED <<now, testimonialTimer, autoplayDue, autoplayTicks>>
    /\ CarouselFrame

\* The click listener of #prev-testimonial (lines 203-205)
PrevClick ==
    /\ "prev:click" \in listeners
    /\ Move("prev", AddInt(testimonialIndex, -1), 0)
    /\ UNCHANGED <<now, testimonialTimer, autoplayDue, autoplayTicks>>
    /\ CarouselFrame

\* A next click that restarts autoplay: clearInterval, then a new setInterval
NextClickRestart ==
    /\ "next:click" \in listeners
    /\ Move("next", AddInt(testimonialIndex, 1), 0)
    /\ testimonialTimer' = testimonialTimer + 1
    /\ autoplayDue' = now + AutoplayPeriod
    /\ UNCHANGED <<now, autoplayTicks>>
    /\ CarouselFrame

\* The click listener of #next-testimonial (line 206)
NextClick ==
    /\ "next:click" \in listeners
    /\ Move("next", AddInt(testimonialIndex, 1), 0)
    /\ UNCHANGED <<now, testimonialTimer, autoplayDue, autoplayTicks>>
    /\ CarouselFrame

\* The setInterval(next, 5000) callback, run `late` ms after it is due
AutoplayTick(late) ==
    /\ "autoplay:interval" \in listeners
    /\ autoplayTicks < MaxTicks
    /\ Move("autoplay", AddInt(testimonialIndex, 1), 0)
    /\ now' = Max(now, autoplayDue) + late
    /\ autoplayDue' = Max(now, autoplayDue) + late + AutoplayPeriod
    /\ autoplayTicks' = autoplayTicks + 1
    /\ UNCHANGED testimonialTimer
    /\ CarouselFrame

\* classList.toggle("is-visible", entry.isIntersecting)
VisibleAfterToggle(entries) ==
    (revealVisible \ {item \in DOMAIN entries : ~entries[item]})
        \cup {item \in DOMAIN entries : entries[item]}

\* entry.target.classList.add("is-visible") for the intersecting entries
VisibleAfter(entries) ==
    revealVisible \cup {item \in DOMAIN entries : entries[item]}

\* The IntersectionObserver callback (lines 111-117); entries maps each
\* reported target to its isIntersecting
ObserverCallback(entries) ==
    /\ "reveal:observer" \in listeners
    /\ revealVisible' = VisibleAfter(entries)
    /\ lastEntries' = entries
    /\ UNCHANGED <<present, headingText, spans, spansShown, localStorage, prefersDark, pc, listeners, cartBadge,
                   wishlistBadge, dataTheme, toggleText, themeClicks, themeAtInit,
                   tabKeys, panelKeys, tabActive, panelActive, lastTab, now,
                   countdownTarget, countdownDue, countdownText, countdownTicks,
                   slideCount, testimonialIndex, testimonialTimer, autoplayDue,
                   autoplayTicks, dotCount, dotsActive, trackOffset, lastMove,
                   revealCount, scrollY, heroOffset, backToTopVisible,
                   arrivalLoading, arrivalDue, error>>

EntrySets ==
    UNION {[targets -> BOOLEAN] : targets \in SUBSET (1..revealCount) \ {{}}}

\* The requestAnimationFrame callbacks of initHeadlineSplit (lines 85-88),
\* which the browser runs together in the next frame
AnimationFrame ==
    /\ "frame:headline" \in listeners
    /\ spansShown' = 1..Len(spans)
    /\ listeners' = listeners \ {"frame:headline"}
    /\ UNCHANGED <<present, headingText, spans, localStorage, prefersDark, pc,
                   cartBadge, wishlistBadge, dataTheme, toggleText, themeClicks,
                   themeAtInit, tabKeys, panelKeys, tabActive, panelActive, lastTab,
                   now, countdownTarget, countdownDue, countdownText,
                   countdownTicks, slideCount, testimonialIndex, testimonialTimer,
                   autoplayDue, autoplayTicks, dotCount, dotsActive, trackOffset,
                   lastMove, revealCount, revealVisible, lastEntries, scrollY,
                   heroOffset, backToTopVisible, arrivalLoading, arrivalDue, error>>

\* The scroll listeners of initParallax (lines 98-101) and initBackToTop
\* (lines 218-220).  heroOffset is window.scrollY * 0.2 in tenths of a pixel.
ScrollTo(y) ==
    /\ scrollY' = y
    /\ heroOffset' = IF "scroll:parallax" \in listeners THEN y * 2 ELSE heroOffset
    /\ backToTopVisible' = IF "scroll:backtotop" \in listeners
                           THEN y > BackToTopThreshold ELSE backToTopVisible

ScrollFrame ==
    UNCHANGED <<present, headingText, spans, spansShown, localStorage, prefersDark, pc, listeners, cartBadge,
                wishlistBadge, dataTheme, toggleText, themeClicks, themeAtInit,
                tabKeys, panelKeys, tabActive, panelActive, lastTab, now,
                countdownTarget, countdownDue, countdownText, countdownTicks,
                slideCount, testimonialIndex, testimonialTimer, autoplayDue,
                autoplayTicks, dotCount, dotsActive, trackOffset, lastMove,
                revealCount, revealVisible, lastEntries, arrivalLoading,
                arrivalDue, error>>

Scroll(y) ==
    /\ pc # "loading"
    /\ y # scrollY
    /\ ScrollTo(y)
    /\ ScrollFrame

\* The click listener of #back-to-top (lines 221-223): the window scrolls to
\* the top, which the scroll listeners see
BackToTopClick ==
    /\ "backtotop:click" \in listeners
    /\ ScrollTo(0)
    /\ ScrollFrame

\* The setTimeout callback of initArrivalSkeleton (lines 232-234)
ArrivalTimeout(late) ==
    /\ "arrival:timeout" \in listeners
    /\ arrivalLoading' = FALSE
    /\ listeners' = listeners \ {"arrival:timeout"}
    /\ now' = Max(now, arrivalDue) + late
    /\ arrivalDue' = -1
    /\ UNCHANGED <<present, headingText, spans, spansShown, localStorage, prefersDark, pc, cartBadge,
                   wishlistBadge, dataTheme, toggleText, themeClicks, themeAtInit,
                   tabKeys, panelKeys, tabActive, panelActive, lastTab,
                   countdownTarget, countdownDue, countdownText, countdownTicks,
                   slideCount, testimonialIndex, testimonialTimer, autoplayDue,
                   autoplayTicks, dotCount, dotsActive, trackOffset, lastMove,
                   revealCount, revealVisible, lastEntries, scrollY, heroOffset,
                   backToTopVisible, error>>

-----------------------------------------------------------------------------
(* Inputs: stored strings and documents *)

\* Stored items: {}, {"qty":n}, {"qty":null}, {"qty":"id"}, {"id":1}, null
ItemTexts ==
    {<<"{", "}">>, <<"{", "qty", ":", "null", "}">>, <<"{", "qty", ":", "id", "}">>,
     <<"{", "id", ":", "1", "}">>, <<"null">>}
    \cup {<<"{", "qty", ":", Digit(q), "}">> : q \in 0..MaxQty}

RECURSIVE Bodies(_, _)
Bodies(items, k) ==
    IF k = 0 THEN {<<>>}
    ELSE IF k = 1 THEN items
    ELSE {b \o <<",">> \o i : b \in Bodies(items, k - 1), i \in items}

ArrayTexts(items) ==
    {<<"[">> \o b \o <<"]">> : b \in UNION {Bodies(items, k) : k \in 0..MaxItems}}

\* The empty string, text JSON.parse rejects, and JSON that is not an array
NonArrayTexts ==
    {<<>>, <<"x">>, <<"[">>, <<"[", "{", "}">>, <<"null">>, <<"{", "}">>, <<"2">>,
     <<"qty">>, <<"{", "qty", ":", "1", "}">>}

CartTexts == ArrayTexts(ItemTexts) \cup NonArrayTexts
WishlistTexts == ArrayTexts({<<"1">>}) \cup {<<>>, <<"x">>, <<"null">>, <<"{", "}">>, <<"qty">>}
ThemeTexts == {"", "dark", "light", "sepia"}

Storages(carts, wishlists, themes) ==
    {[k \in keys |-> CASE k = CartKey -> c [] k = WishlistKey -> w [] OTHER -> th] :
        <<keys, c, w, th>> \in
            (SUBSET {CartKey, WishlistKey, ThemeKey}) \X carts \X wishlists \X themes}

Keys == {"a", "b", NoKey}
KeySeqs == UNION {[1..n -> Keys] : n \in 0..MaxTabs}
InitialActive(keys) == {{}} \cup (IF Len(keys) > 0 THEN {{1}} ELSE {})

\* The page the repository's markup is written for
DefaultPage(elements, storage, dark) ==
    InitPage(elements, storage, dark, DefaultHeading, <<"a", "b">>, <<"a", "b">>, {1}, {1},
             MaxSlides, MaxReveal)

-----------------------------------------------------------------------------
(* Specifications.  Spec is the whole page; each of the others lets one    *)
(* feature's inputs vary and runs init and that feature's handlers.         *)

Init == DefaultPage(ElementIds, <<>>, FALSE)

Next ==
    \/ init
    \/ ThemeToggleClick
    \/ AnimationFrame
    \/ \E tab \in 1..MaxTabs : TabClick(tab)
    \/ \E late \in Lateness, d2 \in 0..MaxDrift, d3 \in 0..MaxDrift :
          CountdownTick(late, d2, d3)
    \/ \E index \in 0..(MaxSlides - 1) : DotClick(index)
    \/ PrevClick
    \/ NextClick
    \/ \E late \in Lateness : AutoplayTick(late)
    \/ \E entries \in EntrySets : ObserverCallback(entries)
    \/ \E y \in ScrollPositions : Scroll(y)
    \/ BackToTopClick
    \/ \E late \in Lateness : ArrivalTimeout(late)

Spec == Init /\ [][Next]_vars

BadgesInit ==
    \E storage \in Storages(CartTexts, WishlistTexts, {"dark"}) :
        DefaultPage(ElementIds, storage, FALSE)

BadgesNext == init

SpecBadges == BadgesInit /\ [][BadgesNext]_vars

ThemeInit ==
    \E storage \in Storages({<<"[", "]">>}, {<<"[", "]">>}, ThemeTexts),
       dark \in BOOLEAN,
       elements \in {ElementIds, ElementIds \ {"theme-toggle"}} :
        DefaultPage(elements, storage, dark)

ThemeNext ==
    \/ init
    \/ ThemeToggleClick

SpecTheme == ThemeInit /\ [][ThemeNext]_vars

TabsInit ==
    \E tabs \in KeySeqs, panels \in KeySeqs :
        \E activeTabs \in InitialActive(tabs), activePanels \in InitialActive(panels) :
            InitPage(ElementIds, <<>>, FALSE, DefaultHeading, tabs, panels, activeTabs, activePanels,
                     MaxSlides, MaxReveal)

TabsNext ==
    \/ init
    \/ \E tab \in 1..MaxTabs : TabClick(tab)

SpecTabs == TabsInit /\ [][TabsNext]_vars

CountdownInit == DefaultPage(ElementIds, <<>>, FALSE)

CountdownNext ==
    \/ init
    \/ \E late \in Lateness, d2 \in 0..MaxDrift, d3 \in 0..MaxDrift :
          CountdownTick(late, d2, d3)

SpecCountdown == CountdownInit /\ [][CountdownNext]_vars

CarouselInit ==
    \E slides \in 0..MaxSlides,
       elements \in {ElementIds, ElementIds \ {"prev-testimonial"},
                     ElementIds \ {"next-testimonial"}} :
        InitPage(elements, <<>>, FALSE, DefaultHeading, <<"a", "b">>, <<"a", "b">>, {1}, {1},
                 slides, MaxReveal)

CarouselNext ==
    \/ init
    \/ \E index \in 0..(MaxSlides - 1) : DotClick(index)
    \/ PrevClick
    \/ NextClick
    \/ \E late \in Lateness : AutoplayTick(late)

SpecCarousel == CarouselInit /\ [][CarouselNext]_vars

RevealInit ==
    \E reveals \in 0..MaxReveal :
        InitPage(ElementIds, <<>>, FALSE, DefaultHeading, <<"a", "b">>, <<"a", "b">>, {1}, {1},
                 MaxSlides, reveals)

RevealNext ==
    \/ init
    \/ \E entries \in EntrySets : ObserverCallback(entries)

SpecReveal == RevealInit /\ [][RevealNext]_vars

\* Documents that lack up to MaxAbsent of the optional elements, with or
\* without the .tab, .tab-panel and .reveal elements
DomInit ==
    \E absent \in {a \in SUBSET ElementIds : Cardinality(a) <= MaxAbsent},
       classes \in BOOLEAN,
       heading \in HeadingTexts :
        InitPage(ElementIds \ absent, <<>>, FALSE, heading,
                 IF classes THEN <<"a", "b">> ELSE <<>>,
                 IF classes THEN <<"a", "b">> ELSE <<>>, {}, {},
                 MaxSlides, IF classes THEN MaxReveal ELSE 0)

DomNext ==
    \/ init
    \/ AnimationFrame
    \/ \E y \in ScrollPositions : Scroll(y)
    \/ BackToTopClick
    \/ \E late \in Lateness : ArrivalTimeout(late)

SpecDom == DomInit /\ [][DomNext]_vars

-----------------------------------------------------------------------------
(* Properties *)

CarouselRunning == "autoplay:interval" \in listeners

IndexInRange ==
    /\ testimonialIndex.t = "num"
    /\ testimonialIndex.v \in 0..(slideCount - 1)

\* C1 as stated: once initTestimonials has run, on a track with any number
\* of slides, state.testimonialIndex is an integer in [0, slideCount).
C1_IndexInRangeAnyTrack == CarouselRunning => IndexInRange

\* C1 as amended: once initTestimonials has run on a track with at least one
\* slide, state.testimonialIndex is an integer in [0, slideCount) whatever dot
\* clicks, prev clicks, next clicks and autoplay ticks occur.
C1_IndexInRange == CarouselRunning /\ slideCount >= 1 => IndexInRange

\* An autoplay tick at the last slide has wrapped the index to 0
C1_Witness ==
    /\ CarouselRunning
    /\ slideCount >= 2
    /\ lastMove.kind = "autoplay"
    /\ lastMove.from = Num(slideCount - 1)
    /\ testimonialIndex = Num(0)

\* C2: every autoplay tick sets the index to (index + 1) mod slideCount (not a
\* number on an empty track) from whatever index it finds and re-arms the
\* timer 5000 ms later; a step that is
\* not an autoplay tick (a dot, prev or next click) leaves the timer handle
\* and its due time as they were, and the timer, once set, is never cleared.
C2_AutoplayIndependent ==
    [][/\ (autoplayTicks' # autoplayTicks /\ slideCount >= 1 =>
              /\ testimonialIndex.t = "num"
              /\ testimonialIndex' = Num((testimonialIndex.v + 1) % slideCount))
       /\ (autoplayTicks' # autoplayTicks /\ slideCount = 0 => testimonialIndex' = NaN)
       /\ (autoplayTicks' # autoplayTicks => autoplayDue' = now' + AutoplayPeriod)
       /\ (autoplayTicks' = autoplayTicks /\ testimonialTimer # 0 =>
              autoplayDue' = autoplayDue)
       /\ (testimonialTimer # 0 =>
              /\ testimonialTimer' = testimonialTimer
              /\ "autoplay:interval" \in listeners')]_vars

\* An autoplay tick that started from an index only manual navigation can
\* have produced: k ticks alone leave the index at k mod 3
C2_Witness ==
    /\ slideCount = 3
    /\ lastMove.kind = "autoplay"
    /\ lastMove.from # Num((autoplayTicks - 1) % 3)
    /\ testimonialIndex = Num((lastMove.from.v + 1) % 3)

ExactlyOneTabActive == tabActive = {lastTab}

\* C3 as stated: after any click on a tab t, exactly one tab (t) and exactly
\* one panel are active, and the active panel is the one whose data-panel
\* equals t's data-tab.
C3_ExactlyOnePanel ==
    lastTab # 0 =>
        /\ ExactlyOneTabActive
        /\ Cardinality(panelActive) = 1
        /\ \A panel \in panelActive : panelKeys[panel] = tabKeys[lastTab]

\* C3 as amended: after any click on a tab t, exactly one tab (t) is active
\* and a panel is active if and only if its data-panel equals t's data-tab;
\* so exactly one panel is active when exactly one panel carries that key.
C3_MatchingPanels ==
    lastTab # 0 =>
        /\ ExactlyOneTabActive
        /\ \A panel \in 1..Len(panelKeys) :
              panel \in panelActive <=> panelKeys[panel] = tabKeys[lastTab]
        /\ (Cardinality({panel \in 1..Len(panelKeys) :
                           panelKeys[panel] = tabKeys[lastTab]}) = 1
              => Cardinality(panelActive) = 1)

\* The second tab was clicked while the first tab and panel were active, and
\* only the second tab and its panel are active now
C3_Witness ==
    /\ lastTab = 2
    /\ tabKeys = <<"a", "b">>
    /\ panelKeys = <<"a", "b">>
    /\ tabActive = {2}
    /\ panelActive = {2}

\* C4 as stated: two clicks on the toggle leave data-theme and the stored
\* veloura-theme as they were right after initTheme.
C4_TwoTogglesRestoreAll ==
    themeClicks = 2 => dataTheme = themeAtInit[1] /\ StoredTheme = themeAtInit[2]

\* C4 as amended: when initTheme set data-theme to "dark" or "light", two
\* clicks on the toggle leave data-theme as it was right after initTheme and
\* leave the stored veloura-theme equal to that theme.
C4_TwoTogglesRestoreTheme ==
    themeClicks = 2 /\ themeAtInit[1] \in {"dark", "light"} =>
        dataTheme = themeAtInit[1] /\ StoredTheme = themeAtInit[1]

\* Two clicks on a page that had no stored preference
C4_Witness ==
    /\ themeClicks = 2
    /\ themeAtInit = <<"light", "null">>
    /\ dataTheme = "light"
    /\ StoredTheme = "light"

Negative(text) == text # <<>> /\ Head(text) = "-"

\* C5: after every countdown tick, state.countdownTarget is strictly later
\* than the current time and none of the days, hours, minutes and seconds
\* written to the page is negative.
C5_TargetAheadAndNonNegative ==
    countdownTicks >= 1 =>
        /\ countdownTarget > now
        /\ \A id \in CountdownIdSet : ~Negative(countdownText[id])

\* A stored value that is absent, empty, unparsable, or JSON that is not an array
Malformed(key) ==
    \/ key \notin DOMAIN localStorage
    \/ localStorage[key] = <<>>
    \/ ~JSONparse(localStorage[key]).ok
    \/ JSONparse(localStorage[key]).val.t # "arr"

\* C6: for an absent or malformed veloura-cart or veloura-wishlist value,
\* syncBadges completes without throwing and writes 0 to that badge.
C6_MalformedCountsZero ==
    pc # "loading" =>
        /\ (Malformed(CartKey) => error = "none" /\ cartBadge = <<"0">>)
        /\ (Malformed(WishlistKey) => error = "none" /\ wishlistBadge = <<"0">>)

\* An array whose items are objects with no qty or a numeric qty
IsItemArray(x) ==
    /\ x.t = "arr"
    /\ \A i \in 1..Len(x.items) :
          /\ x.items[i].t = "obj"
          /\ "qty" \in DOMAIN x.items[i].props => x.items[i].props["qty"].t = "num"

StoredArray(key) ==
    /\ key \in DOMAIN localStorage
    /\ JSONparse(localStorage[key]).ok
    /\ JSONparse(localStorage[key]).val.t = "arr"

RECURSIVE QuantitySum(_)
QuantitySum(items) ==
    IF items = <<>> THEN 0
    ELSE (IF "qty" \in DOMAIN Head(items).props THEN Head(items).props["qty"].v ELSE 1)
         + QuantitySum(Tail(items))

\* C7: for a valid stored cart array, #cart-count shows the sum over the items
\* of the item's qty, an item without qty counting 1; #wishlist-count shows the
\* length of the wishlist array.
C7_BadgeIsQuantitySum ==
    pc # "loading" /\ StoredArray(CartKey) /\ StoredArray(WishlistKey)
        /\ IsItemArray(JSONparse(localStorage[CartKey]).val) =>
        /\ cartBadge = IntToString(QuantitySum(JSONparse(localStorage[CartKey]).val.items))
        /\ wishlistBadge = IntToString(Len(JSONparse(localStorage[WishlistKey]).val.items))

\* C8: whichever optional elements are missing, init and the later callbacks
\* raise no error, and every feature whose elements are present is set up.
C8_MissingElementsSkipped ==
    pc # "loading" =>
        /\ error = "none"
        /\ ("theme-toggle" \in present => "theme:click" \in listeners)
        /\ ("split-title" \in present => spans # <<>>)
        /\ ("hero-bg" \in present => "scroll:parallax" \in listeners)
        /\ (Len(tabKeys) > 0 => "tab:click" \in listeners)
        /\ (revealCount > 0 => "reveal:observer" \in listeners)
        /\ ({"testimonial-track", "testimonial-dots"} \subseteq present =>
               "autoplay:interval" \in listeners)
        /\ ("back-to-top" \in present => "backtotop:click" \in listeners)
        /\ ("arrival-track" \in present =>
               "arrival:timeout" \in listeners \/ ~arrivalLoading)

Wraps ==
    /\ (lastMove.kind = "prev" /\ lastMove.from = Num(0) =>
           testimonialIndex = Num(slideCount - 1))
    /\ (lastMove.kind \in {"next", "autoplay"} /\ lastMove.from = Num(slideCount - 1) =>
           testimonialIndex = Num(0))
    /\ (lastMove.kind = "dot" => testimonialIndex = Num(lastMove.arg))
    /\ (slideCount = 3 => goToSlide(Num(-1)) = Num(2) /\ goToSlide(Num(3)) = Num(0))
    /\ (lastMove.kind # "none" =>
           \E idx \in 0..(dotCount - 1) :
               testimonialIndex = Num(idx) /\ dotsActive = {idx})

\* C9 as stated: on a track of n slides, prev at index 0 stores n-1, next or
\* autoplay at n-1 stores 0, dot i stores i, goToSlide(-1) is 2 and
\* goToSlide(3) is 0 on 3 slides, and after each move exactly the dot at the
\* new index is active.
C9_WrapsAnyTrack == CarouselRunning => Wraps

\* C9 as amended: the same on a track of n >= 1 slides.
C9_Wraps == CarouselRunning /\ slideCount >= 1 => Wraps

\* A prev click at the first of three slides has moved to the last
C9_Witness ==
    /\ slideCount = 3
    /\ lastMove.kind = "prev"
    /\ lastMove.from = Num(0)
    /\ testimonialIndex = Num(2)
    /\ dotsActive = {2}

\* C10: an observer callback gives is-visible to every entry it reports as
\* intersecting, an element gets the class in no other way, and no step takes
\* the class away from an element that has it.
C10_RevealOneWay ==
    [][/\ revealVisible \subseteq revealVisible'
       /\ \A item \in DOMAIN lastEntries' :
             lastEntries'[item] => item \in revealVisible'
       /\ \A item \in revealVisible' \ revealVisible :
             item \in DOMAIN lastEntries' /\ lastEntries'[item]]_vars

\* A visible element was reported as no longer intersecting and is still visible
C10_Witness ==
    \E item \in revealVisible : item \in DOMAIN lastEntries /\ ~lastEntries[item]

=============================================================================
